---- MODULE Spec2Model ----
(***************************************************************************)
(* Model of group_texts (src/run_pretrained.py, lines 416-557): the        *)
(* chunk / sentence-pair construction used to build PoNet pretraining      *)
(* instances.  One action per loop iteration or loop exit of the function; *)
(* every call of the random module is a nondeterministic choice.           *)
(* Python indices are kept 0-based (i, chunk_id, rid, origin ids); TLA+    *)
(* sequences are 1-based, so element i of a list is written list[i + 1].   *)
(***************************************************************************)
EXTENDS Integers, Sequences, FiniteSets, TLC

\* ---- bounds of the explored inputs ----
MaxTokens == 3      \* tokens of the batch, over its segments, times dupe_factor
MaxScans == 3       \* segments (lines) of the batch times dupe_factor
MaxDupe == 2        \* data_args.dupe_factor
MaxBudget == 3      \* max_num_tokens (max_seq_length minus special tokens)

\* ---- sequence helpers ----
RECURSIVE Flatten(_)
\* sum(list_of_lists, [])
Flatten(ss) ==
  IF ss = <<>> THEN <<>> ELSE Head(ss) \o Flatten(Tail(ss))

RECURSIVE Repeat(_, _)
\* [v] * n
Repeat(v, n) ==
  IF n <= 0 THEN <<>> ELSE <<v>> \o Repeat(v, n - 1)

Last(s) == s[Len(s)]

RECURSIVE OriginIds_NoAdvance(_, _)
\* variant of OriginIds: the segment index is not advanced
OriginIds_NoAdvance(ss, j) ==
  IF ss = <<>> THEN <<>>
  ELSE Repeat(j, Len(Head(ss))) \o OriginIds_NoAdvance(Tail(ss), j)

RECURSIVE OriginIds(_, _)
\* origin ids of the segments of ss, the first of which has index j:
\* [j] * len(ss[0]) + [j+1] * len(ss[1]) + ...
OriginIds(ss, j) ==
  IF ss = <<>> THEN <<>>
  ELSE Repeat(j, Len(Head(ss))) \o OriginIds(Tail(ss), j + 1)

\* ---- input batches ----
RECURSIVE Offset(_, _)
Offset(lens, k) ==
  IF k <= 1 THEN 0 ELSE lens[k - 1] + Offset(lens, k - 1)

\* examples['input_ids'] for the segment lengths lens: the tokens of the
\* batch are numbered 1, 2, 3, ... in input order, so every token is distinct
Batch(lens) ==
  [k \in 1..Len(lens) |-> [t \in 1..lens[k] |-> Offset(lens, k) + t]]

LenVectors ==
  {lens \in UNION {[1..n -> 0..MaxTokens] : n \in 0..MaxScans} :
     Offset(lens, Len(lens) + 1) <= MaxTokens}

Batches == {Batch(lens) : lens \in LenVectors}

ScenarioBatch == <<<<1, 2>>, <<3>>, <<4, 5, 6>>>>

\* ---- the tokenizer's pair assembly (external capability) ----
CLS == 101
SEP == 102

\* tokenizer.build_inputs_with_special_tokens(tokens_a, tokens_b)
BuildInputs(a, b) == <<CLS>> \o a \o <<SEP>> \o b \o <<SEP>>

\* tokenizer.create_token_type_ids_from_sequences(tokens_a, tokens_b)
TokenTypeIds(a, b) == Repeat(0, Len(a) + 2) \o Repeat(1, Len(b) + 1)

\* ---- pure pieces of group_texts ----
\* variant of MoreRepetitions: the body runs at least once
MoreRepetitions_AtLeastOnce(r, d) == r < d \/ r = 0

\* line 421: for _ in range(data_args.dupe_factor), r repetitions done
MoreRepetitions(r, d) == r < d

\* line 451 / 476: i == len(examples[fk]) - 1 or current_length >= target_seq_length
ShouldClose(idx, n, len, target) == idx = n - 1 \/ len >= target

\* lines 480-483: a_end = 1, or random.randint(1, len(current_chunk) - 1)
AEndChoices(chunk) ==
  IF Len(chunk) >= 2 THEN 1..(Len(chunk) - 1) ELSE {1}

\* lines 485-489: tokens_a / a_segment_ids for range(a_end)
TokensA(chunk, e) == Flatten(SubSeq(chunk, 1, e))

SegIdsA(chunk, e) == OriginIds(SubSeq(chunk, 1, e), 0)

\* variant of SegIdsB: one origin id for the whole of B
SegIdsB_Flat(chunk, e) == Repeat(e, Len(Flatten(SubSeq(chunk, e + 1, Len(chunk)))))

\* lines 492-496: tokens_b / b_segment_ids for range(a_end, len(current_chunk))
TokensB(chunk, e) == Flatten(SubSeq(chunk, e + 1, Len(chunk)))

SegIdsB(chunk, e) == OriginIds(SubSeq(chunk, e + 1, Len(chunk)), e)

\* line 498
EmptyHalf(a, b) == Len(a) = 0 \/ Len(b) = 0

\* random.random() in tenths: r = t / 10, on both sides of 1/3 and of 2/3
RdnDraws == {1, 3, 4, 6, 7, 9}

\* variant of RelationLabel: RANDOM without the test len(total_chunk) > 1
RelationLabel_NoChunkGuard(t, nchunks) ==
  IF 3 * t < 10 THEN 1
  ELSE IF 3 * t < 20 THEN 2
  ELSE 0

\* variant of RelationLabel: the thresholds are 1/2 and 2/3
RelationLabel_Half(t, nchunks) ==
  IF 2 * t < 10 THEN 1
  ELSE IF 3 * t < 20 /\ nchunks > 1 THEN 2
  ELSE 0

\* lines 502-516: the label chosen for the draw r = t / 10
RelationLabel(t, nchunks) ==
  IF 3 * t < 10 THEN 1
  ELSE IF 3 * t < 20 /\ nchunks > 1 THEN 2
  ELSE 0

\* line 509-510: the indices that end the redraw loop
AcceptRid(r, cid) == r # cid

\* variant of WithinBudget: the loop stops one token early
WithinBudget_OffByOne(a, b, max) == Len(a) + Len(b) <= max + 1

\* variant of WithinBudget: a budget below 2 is treated as 2
WithinBudget_Clamped(a, b, max) ==
  Len(a) + Len(b) <= (IF max < 2 THEN 2 ELSE max)

\* line 522
WithinBudget(a, b, max) == Len(a) + Len(b) <= max

\* variant of TrimsA: A is also trimmed on a tie
TrimsA_OnTie(a, b) == Len(a) >= Len(b)

\* lines 524-525: TRUE when A is the list that is trimmed
TrimsA(a, b) == Len(a) > Len(b)

\* line 530-534
DelFront(s) == Tail(s)
DelBack(s) == SubSeq(s, 1, Len(s) - 1)

\* lines 542-543
AssertsHold(a, b) == Len(a) >= 1 /\ Len(b) >= 1

\* variant of SpecialTokensMask: len(tokens_a) zeros on both sides
SpecialTokensMask_BothA(a, b) ==
  <<1>> \o Repeat(0, Len(a)) \o <<1>> \o Repeat(0, Len(a)) \o <<1>>

\* line 549
SpecialTokensMask(a, b) ==
  <<1>> \o Repeat(0, Len(a)) \o <<1>> \o Repeat(0, Len(b)) \o <<1>>

\* line 551
RenumberA(ids) == [k \in 1..Len(ids) |-> ids[k] - ids[1] + 1]

\* variant of RenumberB: B starts at A's last id, without the gap of 2
RenumberB_NoGap(ids, alast) == [k \in 1..Len(ids) |-> ids[k] - ids[1] + alast]

\* line 552 (alast is the last renumbered id of A)
RenumberB(ids, alast) == [k \in 1..Len(ids) |-> ids[k] - ids[1] + alast + 2]

\* line 553
SegmentIds(ra, rb) ==
  <<0>> \o ra \o <<Last(ra) + 1>> \o rb \o <<Last(rb) + 1>>

\* lines 418-420
EmptyResults ==
  [input_ids |-> <<>>, token_type_ids |-> <<>>, attention_mask |-> <<>>,
   special_tokens_mask |-> <<>>, next_sentence_label |-> <<>>,
   segment_ids |-> <<>>]

\* variant of AppendInstance: segment_ids is not appended
AppendInstance_NoSegmentIds(res, a, b, ia, ib, label) ==
  [input_ids           |-> Append(res.input_ids, BuildInputs(a, b)),
   token_type_ids      |-> Append(res.token_type_ids, TokenTypeIds(a, b)),
   attention_mask      |-> Append(res.attention_mask,
                                  Repeat(1, Len(BuildInputs(a, b)))),
   special_tokens_mask |-> Append(res.special_tokens_mask,
                                  SpecialTokensMask(a, b)),
   next_sentence_label |-> Append(res.next_sentence_label, label),
   segment_ids         |-> res.segment_ids]

\* lines 538-553: the six appends for the pair (a, b) with origin ids (ia, ib)
AppendInstance(res, a, b, ia, ib, label) ==
  [input_ids           |-> Append(res.input_ids, BuildInputs(a, b)),
   token_type_ids      |-> Append(res.token_type_ids, TokenTypeIds(a, b)),
   attention_mask      |-> Append(res.attention_mask,
                                  Repeat(1, Len(BuildInputs(a, b)))),
   special_tokens_mask |-> Append(res.special_tokens_mask,
                                  SpecialTokensMask(a, b)),
   next_sentence_label |-> Append(res.next_sentence_label, label),
   segment_ids         |-> Append(res.segment_ids,
                                  SegmentIds(RenumberA(ia),
                                             RenumberB(ib, Last(RenumberA(ia)))))]

\* ---- state ----
VARIABLES
  examples,           \* examples['input_ids']: the batch of segments
  max_num_tokens,     \* line 423
  dupe_factor,        \* data_args.dupe_factor
  rep,                \* repetitions of the line-421 loop completed
  target_seq_length,  \* lines 434-436
  total_chunk,        \* line 439
  current_chunk,      \* lines 440 / 464
  current_length,     \* lines 441 / 465
  i,                  \* lines 442 / 466
  chunk_id,           \* line 467
  a_end,              \* lines 480-483
  tokens_a, tokens_b, a_segment_ids, b_segment_ids,
  is_next, rdn, rid,
  results,            \* lines 418-420
  pc                  \* position in group_texts

vars == <<examples, max_num_tokens, dupe_factor, rep, target_seq_length,
          total_chunk, current_chunk, current_length, i, chunk_id,
          a_end, tokens_a, tokens_b, a_segment_ids, b_segment_ids,
          is_next, rdn, rid, results, pc>>

inputs == <<examples, max_num_tokens, dupe_factor>>
pairVars == <<a_end, tokens_a, tokens_b, a_segment_ids, b_segment_ids,
              is_next, rdn, rid>>

Init ==
  /\ \/ /\ examples \in Batches
        /\ max_num_tokens \in (-1)..MaxBudget
        /\ dupe_factor \in (-1)..MaxDupe
        /\ dupe_factor * Len(examples) <= MaxScans
        /\ dupe_factor * Len(Flatten(examples)) <= MaxTokens
     \/ /\ examples = ScenarioBatch
        /\ max_num_tokens = 10
        /\ dupe_factor = 1
  /\ rep = 0
  /\ target_seq_length = 0
  /\ total_chunk = <<>>
  /\ current_chunk = <<>>
  /\ current_length = 0
  /\ i = 0
  /\ chunk_id = -1
  /\ a_end = 0
  /\ tokens_a = <<>>
  /\ tokens_b = <<>>
  /\ a_segment_ids = <<>>
  /\ b_segment_ids = <<>>
  /\ is_next = 0
  /\ rdn = 0
  /\ rid = 0
  /\ results = EmptyResults
  /\ pc = "rep"

\* ---- lines 421-442: start of one repetition ----
\* the target when random.random() >= short_seq_prob, or a randint(2, max)
BeginRepetition ==
  /\ pc = "rep"
  /\ MoreRepetitions(rep, dupe_factor)
  /\ \/ target_seq_length' = max_num_tokens
     \/ /\ max_num_tokens >= 2
        /\ target_seq_length' \in 2..max_num_tokens
  /\ total_chunk' = <<>>
  /\ current_chunk' = <<>>
  /\ current_length' = 0
  /\ i' = 0
  /\ pc' = "chunk"
  /\ UNCHANGED <<inputs, rep, chunk_id, pairVars, results>>

\* line 436: random.randint(2, max_num_tokens) raises ValueError on an
\* empty range
BeginRepetitionError ==
  /\ pc = "rep"
  /\ MoreRepetitions(rep, dupe_factor)
  /\ max_num_tokens < 2
  /\ pc' = "error"
  /\ UNCHANGED <<inputs, rep, target_seq_length, total_chunk, current_chunk,
                 current_length, i, chunk_id, pairVars, results>>

\* line 557
Return ==
  /\ pc = "rep"
  /\ ~MoreRepetitions(rep, dupe_factor)
  /\ pc' = "done"
  /\ UNCHANGED <<inputs, rep, target_seq_length, total_chunk, current_chunk,
                 current_length, i, chunk_id, pairVars, results>>

\* ---- lines 443-457: the chunking pass ----
ChunkSkipEmpty ==
  /\ pc = "chunk"
  /\ i < Len(examples)
  /\ examples[i + 1] = <<>>
  /\ i' = i + 1
  /\ UNCHANGED <<inputs, rep, target_seq_length, total_chunk, current_chunk,
                 current_length, chunk_id, pairVars, results, pc>>

ChunkAppend ==
  /\ pc = "chunk"
  /\ i < Len(examples)
  /\ examples[i + 1] # <<>>
  /\ LET cc == Append(current_chunk, examples[i + 1])
         cl == current_length + Len(examples[i + 1])
     IN IF ShouldClose(i, Len(examples), cl, target_seq_length)
        THEN /\ total_chunk' = IF cc # <<>> THEN Append(total_chunk, cc)
                                            ELSE total_chunk
             /\ current_chunk' = <<>>
             /\ current_length' = 0
        ELSE /\ total_chunk' = total_chunk
             /\ current_chunk' = cc
             /\ current_length' = cl
  /\ i' = i + 1
  /\ UNCHANGED <<inputs, rep, target_seq_length, chunk_id, pairVars,
                 results, pc>>

\* loop exit and lines 464-467
ChunkDone ==
  /\ pc = "chunk"
  /\ i >= Len(examples)
  /\ current_chunk' = <<>>
  /\ current_length' = 0
  /\ i' = 0
  /\ chunk_id' = -1
  /\ pc' = "pair"
  /\ UNCHANGED <<inputs, rep, target_seq_length, total_chunk, pairVars,
                 results>>

\* ---- lines 468-556: the pair-construction pass ----
PairSkipEmpty ==
  /\ pc = "pair"
  /\ i < Len(examples)
  /\ examples[i + 1] = <<>>
  /\ i' = i + 1
  /\ UNCHANGED <<inputs, rep, target_seq_length, total_chunk, current_chunk,
                 current_length, chunk_id, pairVars, results, pc>>

\* lines 473-476 when the chunk is not closed, then line 556
PairAppend ==
  /\ pc = "pair"
  /\ i < Len(examples)
  /\ examples[i + 1] # <<>>
  /\ LET cc == Append(current_chunk, examples[i + 1])
         cl == current_length + Len(examples[i + 1])
     IN /\ ~ShouldClose(i, Len(examples), cl, target_seq_length)
        /\ current_chunk' = cc
        /\ current_length' = cl
  /\ i' = i + 1
  /\ UNCHANGED <<inputs, rep, target_seq_length, total_chunk, chunk_id,
                 pairVars, results, pc>>

\* lines 473-499 when the chunk is closed and a half is empty: `continue`
\* goes back to line 468 without passing lines 554-556
PairDiscard ==
  /\ pc = "pair"
  /\ i < Len(examples)
  /\ examples[i + 1] # <<>>
  /\ LET cc == Append(current_chunk, examples[i + 1])
         cl == current_length + Len(examples[i + 1])
     IN /\ ShouldClose(i, Len(examples), cl, target_seq_length)
        /\ cc # <<>>
        /\ \E e \in AEndChoices(cc) :
             /\ EmptyHalf(TokensA(cc, e), TokensB(cc, e))
             /\ a_end' = e
             /\ tokens_a' = TokensA(cc, e)
             /\ a_segment_ids' = SegIdsA(cc, e)
             /\ tokens_b' = TokensB(cc, e)
             /\ b_segment_ids' = SegIdsB(cc, e)
        /\ current_chunk' = cc
        /\ current_length' = cl
  /\ chunk_id' = chunk_id + 1
  /\ UNCHANGED <<inputs, rep, target_seq_length, total_chunk, i,
                 is_next, rdn, rid, results, pc>>

\* lines 473-516 when the chunk is closed and both halves are non-empty:
\* split at a_end, draw rdn, choose the relation
PairSample ==
  /\ pc = "pair"
  /\ i < Len(examples)
  /\ examples[i + 1] # <<>>
  /\ LET cc == Append(current_chunk, examples[i + 1])
         cl == current_length + Len(examples[i + 1])
     IN /\ ShouldClose(i, Len(examples), cl, target_seq_length)
        /\ cc # <<>>
        /\ \E e \in AEndChoices(cc), t \in RdnDraws :
             LET ta == TokensA(cc, e)
                 ia == SegIdsA(cc, e)
                 tb == TokensB(cc, e)
                 ib == SegIdsB(cc, e)
                 label == RelationLabel(t, Len(total_chunk))
             IN /\ ~EmptyHalf(ta, tb)
                /\ a_end' = e
                /\ rdn' = t
                /\ is_next' = label
                /\ IF label = 1
                   THEN /\ tokens_a' = tb
                        /\ tokens_b' = ta
                        /\ a_segment_ids' = ib
                        /\ b_segment_ids' = ia
                   ELSE /\ tokens_a' = ta
                        /\ tokens_b' = tb
                        /\ a_segment_ids' = ia
                        /\ b_segment_ids' = ib
                /\ pc' = IF label = 2 THEN "redraw" ELSE "trunc"
        /\ current_chunk' = cc
        /\ current_length' = cl
  /\ chunk_id' = chunk_id + 1
  /\ UNCHANGED <<inputs, rep, target_seq_length, total_chunk, i, rid,
                 results>>

\* lines 508-514: one draw of rid; an accepted draw replaces B
Redraw ==
  /\ pc = "redraw"
  /\ \E r \in 0..(Len(total_chunk) - 1) :
       /\ rid' = r
       /\ IF AcceptRid(r, chunk_id)
          THEN /\ tokens_b' = Flatten(total_chunk[r + 1])
               /\ b_segment_ids' = OriginIds(total_chunk[r + 1], 0)
               /\ pc' = "trunc"
          ELSE UNCHANGED <<tokens_b, b_segment_ids, pc>>
  /\ UNCHANGED <<inputs, rep, target_seq_length, total_chunk, current_chunk,
                 current_length, i, chunk_id, a_end, tokens_a, a_segment_ids,
                 is_next, rdn, results>>

\* lines 520-534: one iteration of the truncation loop that removes a token
TruncStep ==
  /\ pc = "trunc"
  /\ ~WithinBudget(tokens_a, tokens_b, max_num_tokens)
  /\ Len(IF TrimsA(tokens_a, tokens_b) THEN tokens_a ELSE tokens_b) >= 1
  /\ Len(IF TrimsA(a_segment_ids, b_segment_ids)
         THEN a_segment_ids ELSE b_segment_ids) >= 1
  /\ \E front \in BOOLEAN :
       /\ IF TrimsA(tokens_a, tokens_b)
          THEN /\ tokens_a' = IF front THEN DelFront(tokens_a)
                                       ELSE DelBack(tokens_a)
               /\ tokens_b' = tokens_b
          ELSE /\ tokens_b' = IF front THEN DelFront(tokens_b)
                                       ELSE DelBack(tokens_b)
               /\ tokens_a' = tokens_a
       /\ IF TrimsA(a_segment_ids, b_segment_ids)
          THEN /\ a_segment_ids' = IF front THEN DelFront(a_segment_ids)
                                            ELSE DelBack(a_segment_ids)
               /\ b_segment_ids' = b_segment_ids
          ELSE /\ b_segment_ids' = IF front THEN DelFront(b_segment_ids)
                                            ELSE DelBack(b_segment_ids)
               /\ a_segment_ids' = a_segment_ids
  /\ UNCHANGED <<inputs, rep, target_seq_length, total_chunk, current_chunk,
                 current_length, i, chunk_id, a_end, is_next, rdn, rid,
                 results, pc>>

\* line 526: the assertion fails (or a del / pop on an empty list raises)
TruncAssertFail ==
  /\ pc = "trunc"
  /\ ~WithinBudget(tokens_a, tokens_b, max_num_tokens)
  /\ \/ Len(IF TrimsA(tokens_a, tokens_b) THEN tokens_a ELSE tokens_b) < 1
     \/ Len(IF TrimsA(a_segment_ids, b_segment_ids)
            THEN a_segment_ids ELSE b_segment_ids) < 1
  /\ pc' = "error"
  /\ UNCHANGED <<inputs, rep, target_seq_length, total_chunk, current_chunk,
                 current_length, i, chunk_id, pairVars, results>>

\* lines 522-523 and 538-556: the loop ends, the instance is appended to the
\* six lists, the running chunk is cleared and i advances
Assemble ==
  /\ pc = "trunc"
  /\ WithinBudget(tokens_a, tokens_b, max_num_tokens)
  /\ AssertsHold(tokens_a, tokens_b)
  /\ results' = AppendInstance(results, tokens_a, tokens_b,
                               a_segment_ids, b_segment_ids, is_next)
  /\ a_segment_ids' = RenumberA(a_segment_ids)
  /\ b_segment_ids' = RenumberB(b_segment_ids, Last(RenumberA(a_segment_ids)))
  /\ current_chunk' = <<>>
  /\ current_length' = 0
  /\ i' = i + 1
  /\ pc' = "pair"
  /\ UNCHANGED <<inputs, rep, target_seq_length, total_chunk, chunk_id,
                 a_end, tokens_a, tokens_b, is_next, rdn, rid>>

\* lines 542-543: an assertion fails
AssembleAssertFail ==
  /\ pc = "trunc"
  /\ WithinBudget(tokens_a, tokens_b, max_num_tokens)
  /\ ~AssertsHold(tokens_a, tokens_b)
  /\ pc' = "error"
  /\ UNCHANGED <<inputs, rep, target_seq_length, total_chunk, current_chunk,
                 current_length, i, chunk_id, pairVars, results>>

\* exit of the line-468 loop: next repetition of line 421
PairDone ==
  /\ pc = "pair"
  /\ i >= Len(examples)
  /\ rep' = rep + 1
  /\ pc' = "rep"
  /\ UNCHANGED <<inputs, target_seq_length, total_chunk, current_chunk,
                 current_length, i, chunk_id, pairVars, results>>

Next ==
  \/ BeginRepetition
  \/ BeginRepetitionError
  \/ Return
  \/ ChunkSkipEmpty
  \/ ChunkAppend
  \/ ChunkDone
  \/ PairSkipEmpty
  \/ PairAppend
  \/ PairDiscard
  \/ PairSample
  \/ Redraw
  \/ TruncStep
  \/ TruncAssertFail
  \/ Assemble
  \/ AssembleAssertFail
  \/ PairDone

Spec == Init /\ [][Next]_vars

TypeOK ==
  /\ pc \in {"rep", "chunk", "pair", "redraw", "trunc", "done", "error"}
  /\ rep \in 0..MaxDupe
  /\ i \in 0..Len(examples)

\* ---- properties ----
\* a step that appends an instance to the output lists
Emits == results' # results

NonEmptySeg(seg) == seg # <<>>

\* the tokens of a list of segments, as a set
TokenSet(chunk) == {Flatten(chunk)[k] : k \in 1..Len(Flatten(chunk))}

\* C1: every instance appended to the output has, after truncate_seq_pair,
\* len(A) + len(B) <= max_num_tokens, len(A) >= 1 and len(B) >= 1, A and B
\* being the content between the special tokens of its input_ids.
C1_TruncationBound ==
  [][Emits =>
       /\ Len(tokens_a') + Len(tokens_b') <= max_num_tokens
       /\ Len(tokens_a') >= 1
       /\ Len(tokens_b') >= 1
       /\ Last(results'.input_ids)
            = <<CLS>> \o tokens_a' \o <<SEP>> \o tokens_b' \o <<SEP>>]_vars

\* an instance was emitted for the only chunk after tokens were trimmed
C1_Witness ==
  /\ pc = "done"
  /\ Len(results.input_ids) = 1
  /\ Len(total_chunk) = 1
  /\ is_next = 0
  /\ Len(tokens_a) + Len(tokens_b) = max_num_tokens
  /\ Len(tokens_a) + Len(tokens_b) < Len(Flatten(total_chunk[1]))

\* the pair pass is about to close a chunk that holds exactly one segment
ClosesSingleSegment ==
  /\ pc = "pair"
  /\ i < Len(examples)
  /\ examples[i + 1] # <<>>
  /\ current_chunk = <<>>
  /\ ShouldClose(i, Len(examples), Len(examples[i + 1]), target_seq_length)

\* C2: a chunk closed with exactly one segment produces no instance: it is
\* discarded, and the pass goes on with the next input segment from an empty
\* running chunk.
C2_SingleSegmentDiscarded ==
  [][ClosesSingleSegment =>
       /\ results' = results
       /\ pc' = "pair"
       /\ i' = i + 1
       /\ current_chunk' = <<>>]_vars

\* C3: when an instance is labelled RANDOM, B before truncation is the
\* concatenation of a chunk of total_chunk other than the chunk that
\* supplies A (with max_num_tokens >= 2 every labelled pair is emitted).
C3_RandomFromOtherChunk ==
  [][(pc = "redraw" /\ pc' = "trunc" /\ max_num_tokens >= 2) =>
       \E k \in 1..Len(total_chunk) :
         /\ tokens_b' = Flatten(total_chunk[k])
         /\ TokenSet(total_chunk[k]) \cap
              {tokens_a'[n] : n \in 1..Len(tokens_a')} = {}]_vars

\* C4: when the chunking pass produced exactly one chunk, no instance of the
\* repetition is labelled RANDOM (2).
C4_SingleChunkNoRandom ==
  [][(Emits /\ Len(total_chunk) = 1) =>
       /\ is_next \in {0, 1}
       /\ Last(results'.next_sentence_label) \in {0, 1}]_vars

\* with one chunk, a draw in [1/3, 2/3) gave SAME_ORDER
C4_Witness ==
  /\ pc = "done"
  /\ Len(total_chunk) = 1
  /\ Len(results.next_sentence_label) = 1
  /\ rdn \in {4, 6}
  /\ results.next_sentence_label[1] = 0

\* C5: the special_tokens_mask of every emitted instance has length
\* len(A) + len(B) + 3 and holds ones exactly at the (0-based) positions
\* 0, 1 + len(A) and 2 + len(A) + len(B).
C5_SpecialTokensMask ==
  [][Emits =>
       LET m == Last(results'.special_tokens_mask)
           la == Len(tokens_a')
           lb == Len(tokens_b')
       IN /\ Len(m) = la + lb + 3
          /\ \A p \in 1..Len(m) :
               m[p] = IF p - 1 \in {0, 1 + la, 2 + la + lb} THEN 1 ELSE 0]_vars

\* a RANDOM instance with halves of different lengths has just been emitted
C5_Witness ==
  /\ pc = "pair"
  /\ current_chunk = <<>>
  /\ Len(results.special_tokens_mask) >= 1
  /\ Len(Last(results.special_tokens_mask))
       = Len(tokens_a) + Len(tokens_b) + 3
  /\ Len(tokens_a) # Len(tokens_b)
  /\ Last(results.next_sentence_label) = 2

\* C6: the segment_ids of every emitted instance are non-decreasing, start
\* with 0, and each of the two later sentinels is greater than every id of
\* the half it closes.
C6_SegmentIdsMonotone ==
  [][Emits =>
       LET sg == Last(results'.segment_ids)
           la == Len(tokens_a')
           lb == Len(tokens_b')
       IN /\ Len(sg) = la + lb + 3
          /\ sg[1] = 0
          /\ \A p \in 1..(Len(sg) - 1) : sg[p] <= sg[p + 1]
          /\ \A p \in 2..(la + 1) : sg[p] < sg[la + 2]
          /\ \A p \in (la + 3)..(la + lb + 2) : sg[p] < sg[la + lb + 3]]_vars

\* a swapped instance whose A spans two segments was emitted
C6_Witness ==
  \E k \in 1..Len(results.segment_ids) :
    /\ results.next_sentence_label[k] = 1
    /\ Len(results.segment_ids[k]) >= 6
    /\ results.special_tokens_mask[k][3] = 0
    /\ results.segment_ids[k][2] # results.segment_ids[k][3]

\* the run of the concrete scenario: the batch [[1,2],[3],[4,5,6]] with
\* max_num_tokens = 10 has returned after the split at a_end = 1 and the
\* draw r = 0.9
ScenarioRun ==
  /\ examples = ScenarioBatch
  /\ max_num_tokens = 10
  /\ pc = "done"
  /\ a_end = 1
  /\ rdn = 9

\* C7 as stated: the scenario emits one instance with A = [1,2],
\* B = [3,4,5,6], no truncation, and segment_ids = [0,1,1,2,3,3,3,4].
C7_ScenarioAsStated ==
  ScenarioRun =>
    /\ Len(results.input_ids) = 1
    /\ results.input_ids[1] = <<CLS, 1, 2, SEP, 3, 4, 5, 6, SEP>>
    /\ results.segment_ids[1] = <<0, 1, 1, 2, 3, 3, 3, 4>>

\* C7 amended: when the three segments form one chunk (target length of at
\* least 4, as with the default target = max_num_tokens), the scenario emits
\* one SAME_ORDER instance with A = [1,2], B = [3,4,5,6], no truncation, and
\* segment_ids = [0,1,1,2,3,4,4,4,5].
C7_Scenario ==
  (ScenarioRun /\ target_seq_length >= 4) =>
    /\ Len(results.input_ids) = 1
    /\ results.input_ids[1] = <<CLS, 1, 2, SEP, 3, 4, 5, 6, SEP>>
    /\ tokens_a = <<1, 2>>
    /\ tokens_b = <<3, 4, 5, 6>>
    /\ results.next_sentence_label[1] = 0
    /\ results.segment_ids[1] = <<0, 1, 1, 2, 3, 4, 4, 4, 5>>
    /\ results.special_tokens_mask[1] = <<1, 0, 0, 1, 0, 0, 0, 0, 1>>

C7_Witness ==
  ScenarioRun /\ target_seq_length = max_num_tokens

\* C8: between chunk iterations and at the return, the six output lists
\* hold the same number of entries, and a step only appends to them: no
\* earlier entry is removed or changed, over all repetitions.
C8_ParallelLists ==
  /\ [](\A f \in DOMAIN results :
          Len(results[f]) = Len(results.next_sentence_label))
  /\ [](DOMAIN results = {"input_ids", "token_type_ids", "attention_mask",
                          "special_tokens_mask", "next_sentence_label",
                          "segment_ids"})
  /\ [][\A f \in DOMAIN results :
          /\ Len(results'[f]) \in {Len(results[f]), Len(results[f]) + 1}
          /\ SubSeq(results'[f], 1, Len(results[f])) = results[f]]_vars

\* two repetitions have each added an instance to the returned batch
C8_Witness ==
  /\ pc = "done"
  /\ dupe_factor = 2
  /\ rep = 2
  /\ Len(results.segment_ids) = 2

\* C9: when the chunking pass is over, the chunks of total_chunk, in order,
\* hold exactly the non-empty input segments in input order, and no chunk
\* is empty.
C9_ChunksCoverInput ==
  pc = "pair" =>
    /\ Flatten(total_chunk) = SelectSeq(examples, NonEmptySeg)
    /\ \A k \in 1..Len(total_chunk) : total_chunk[k] # <<>>

\* C10: with max_num_tokens < 2 nothing is ever appended to the output, and
\* once a pair with two non-empty halves exists the function can only abort:
\* it never gets back to the loops or to the return.
C10_SmallBudgetAborts ==
  /\ [](max_num_tokens < 2 => results = EmptyResults)
  /\ [][(max_num_tokens < 2 /\ pc \in {"redraw", "trunc"}) =>
          pc' \in {"redraw", "trunc", "error"}]_vars
  /\ [][pc = "error" => pc' = "error"]_vars

\* the trimming emptied B and the assertion of line 543 stopped the function
C10_Witness ==
  /\ pc = "error"
  /\ max_num_tokens = 1
  /\ chunk_id >= 0
  /\ Len(tokens_a) = 1
  /\ tokens_b = <<>>

\* the batch holds an empty segment
HasEmptySegment == \E k \in 1..Len(examples) : examples[k] = <<>>

\* C11 as stated: a batch with an empty segment, or a dupe_factor < 1, is
\* rejected at the start and never yields an output batch.
C11_PreconditionsRejected ==
  (HasEmptySegment \/ dupe_factor < 1) => pc # "done"

\* C11 amended: no precondition is validated.  With dupe_factor < 1 no
\* repetition runs and the batch returned has six empty lists; an empty
\* segment is skipped by both passes and never causes an error: the only
\* aborts are those of a max_num_tokens below 2.
C11_NoValidation ==
  /\ dupe_factor < 1 => (pc \in {"rep", "done"} /\ results = EmptyResults)
  /\ pc = "error" => (max_num_tokens < 2 /\ dupe_factor >= 1)
  /\ \A c \in 1..Len(total_chunk) :
       \A n \in 1..Len(total_chunk[c]) : total_chunk[c][n] # <<>>

\* a batch with an empty segment was processed and returned an instance
C11_Witness ==
  /\ pc = "done"
  /\ HasEmptySegment
  /\ Len(results.input_ids) >= 1

\* a step of the pair pass that splits a closed chunk and samples a relation
SamplesRelation == pc = "pair" /\ pc' \in {"redraw", "trunc"}

\* C12: for the split pair (A, B) and the draw r = rdn / 10, the label is
\* SWAPPED (1) exactly when r < 1/3, and then (B, A) with the origin ids
\* swapped goes on to truncation; it is RANDOM (2) exactly when
\* 1/3 <= r < 2/3 and total_chunk has more than one chunk; otherwise it is
\* SAME_ORDER (0) and A, B go on as split.
C12_RelationSampling ==
  [][SamplesRelation =>
       LET chunk == current_chunk'
           splitA == Flatten(SubSeq(chunk, 1, a_end'))
           splitB == Flatten(SubSeq(chunk, a_end' + 1, Len(chunk)))
           idsA == OriginIds(SubSeq(chunk, 1, a_end'), 0)
           idsB == OriginIds(SubSeq(chunk, a_end' + 1, Len(chunk)), a_end')
       IN /\ is_next' \in {0, 1, 2}
          /\ is_next' = 1 <=> 3 * rdn' < 10
          /\ is_next' = 2 <=>
               (10 <= 3 * rdn' /\ 3 * rdn' < 20 /\ Len(total_chunk) > 1)
          /\ is_next' = 1 =>
               /\ tokens_a' = splitB /\ tokens_b' = splitA
               /\ a_segment_ids' = idsB /\ b_segment_ids' = idsA
          /\ is_next' # 1 =>
               /\ tokens_a' = splitA /\ tokens_b' = splitB
               /\ a_segment_ids' = idsA /\ b_segment_ids' = idsB
          /\ pc' = "redraw" <=> is_next' = 2]_vars

\* a draw just below 1/3 swapped the halves of a chunk
C12_Witness ==
  /\ pc = "trunc"
  /\ is_next = 1
  /\ rdn = 3
  /\ tokens_a = Flatten(SubSeq(current_chunk, a_end + 1, Len(current_chunk)))
  /\ tokens_b = Flatten(SubSeq(current_chunk, 1, a_end))
  /\ tokens_a # tokens_b

\* an iteration of the truncation loop that removes a token
Trims == pc = "trunc" /\ pc' = "trunc" /\ <<tokens_a, tokens_b>>' # <<tokens_a, tokens_b>>

\* s with its first or its last element removed
OneRemoved(s) == {Tail(s), SubSeq(s, 1, Len(s) - 1)}

\* C13 as stated: the half that loses an element is the strictly longer one,
\* and A when len(A) = len(B); the other half is unchanged.
C13_TrimsLongerTieA ==
  [][Trims =>
       /\ Len(tokens_a) + Len(tokens_b) > max_num_tokens
       /\ IF Len(tokens_a) >= Len(tokens_b)
          THEN tokens_a' \in OneRemoved(tokens_a) /\ tokens_b' = tokens_b
          ELSE tokens_b' \in OneRemoved(tokens_b) /\ tokens_a' = tokens_a]_vars

\* C13 amended: the half that loses an element is the strictly longer one,
\* and B when len(A) = len(B); the other half is unchanged, and the origin
\* ids lose the element at the same place.
C13_TrimsLonger ==
  [][Trims =>
       /\ Len(tokens_a) + Len(tokens_b) > max_num_tokens
       /\ IF Len(tokens_a) > Len(tokens_b)
          THEN /\ tokens_a' \in OneRemoved(tokens_a)
               /\ tokens_b' = tokens_b
               /\ b_segment_ids' = b_segment_ids
               /\ (tokens_a' = Tail(tokens_a)
                     => a_segment_ids' = Tail(a_segment_ids))
               /\ Len(a_segment_ids') = Len(tokens_a')
          ELSE /\ tokens_b' \in OneRemoved(tokens_b)
               /\ tokens_a' = tokens_a
               /\ a_segment_ids' = a_segment_ids
               /\ (tokens_b' = Tail(tokens_b)
                     => b_segment_ids' = Tail(b_segment_ids))
               /\ Len(b_segment_ids') = Len(tokens_b')]_vars

\* halves of equal length went into the loop and B lost a token
C13_Witness ==
  /\ pc = "trunc"
  /\ is_next = 0
  /\ tokens_a = Flatten(SubSeq(current_chunk, 1, a_end))
  /\ Len(Flatten(SubSeq(current_chunk, a_end + 1, Len(current_chunk))))
       = Len(tokens_a)
  /\ Len(tokens_b) = Len(tokens_a) - 1

\* the position, among the non-empty input segments, of the segment that
\* holds token t (the tokens of a batch are distinct)
SegmentOf(t) ==
  CHOOSE n \in 1..Len(SelectSeq(examples, NonEmptySeg)) :
    \E k \in 1..Len(SelectSeq(examples, NonEmptySeg)[n]) :
      SelectSeq(examples, NonEmptySeg)[n][k] = t

\* C14: in every emitted instance the segment id of a content token is the
\* index of its segment minus the index of the segment of the first
\* surviving token of its half, plus the base of the half (1 for A, A's last
\* id + 2 for B); two tokens of a half share an id exactly when they come
\* from the same segment.
C14_SegmentIdsAligned ==
  [][Emits =>
       LET sg == Last(results'.segment_ids)
           ta == tokens_a'
           tb == tokens_b'
           la == Len(tokens_a')
           lb == Len(tokens_b')
       IN /\ Len(sg) = la + lb + 3
          /\ \A k \in 1..la :
               sg[1 + k] = SegmentOf(ta[k]) - SegmentOf(ta[1]) + 1
          /\ \A k \in 1..lb :
               sg[la + 2 + k]
                 = SegmentOf(tb[k]) - SegmentOf(tb[1]) + sg[la + 1] + 2
          /\ \A k, n \in 1..la :
               sg[1 + k] = sg[1 + n] <=> SegmentOf(ta[k]) = SegmentOf(ta[n])
          /\ \A k, n \in 1..lb :
               sg[la + 2 + k] = sg[la + 2 + n]
                 <=> SegmentOf(tb[k]) = SegmentOf(tb[n])]_vars

\* a RANDOM instance was emitted whose B is a two-segment chunk that lost
\* its first token in the truncation
C14_Witness ==
  /\ pc = "pair"
  /\ current_chunk = <<>>
  /\ Len(results.segment_ids) >= 1
  /\ Last(results.next_sentence_label) = 2
  /\ is_next = 2
  /\ rid < Len(total_chunk)
  /\ Len(total_chunk[rid + 1]) >= 2
  /\ tokens_b = Tail(Flatten(total_chunk[rid + 1]))
  /\ Last(results.input_ids) = BuildInputs(tokens_a, tokens_b)

\* a step of the pair pass that closes a chunk (line 478)
ClosesChunk == pc = "pair" /\ chunk_id' = chunk_id + 1

\* C16: whenever the pair pass closes a chunk, chunk_id is a valid index of
\* total_chunk and the chunk being split equals total_chunk[chunk_id]; when
\* the pass ends, chunk_id = len(total_chunk) - 1.
C16_SameChunks ==
  [][/\ ClosesChunk =>
          /\ chunk_id' \in 0..(Len(total_chunk) - 1)
          /\ current_chunk' = total_chunk[chunk_id' + 1]
     /\ (pc = "pair" /\ pc' = "rep") =>
          chunk_id = Len(total_chunk) - 1]_vars

\* ---- termination ----
\* a draw of line 509 that ends the redraw loop
RedrawAccept == Redraw /\ pc' = "trunc"

\* the function keeps running until it returns or raises, and the draws of
\* rid are fair: an index other than chunk_id is eventually drawn
FairSpec == Spec /\ WF_vars(Next) /\ SF_vars(RedrawAccept)

\* C15: group_texts eventually returns its batch or aborts with an error:
\* the scanning loops, the redraw loop and the truncation loop terminate.
C15_Terminates == <>(pc \in {"done", "error"})

\* the function returned after a discarded split, a redraw and a truncation
C15_Witness ==
  /\ pc = "done"
  /\ Len(results.next_sentence_label) >= 1
  /\ Last(results.next_sentence_label) = 2
  /\ chunk_id > Len(total_chunk) - 1
  /\ rid < Len(total_chunk)
  /\ Len(tokens_b) < Len(Flatten(total_chunk[rid + 1]))

====
